---- MODULE Spec2Model ----
(***************************************************************************)
(* Shape abstraction core of the collision-geometry library: the Shape     *)
(* trait implementations of src/shape/shape.rs and the Compound aggregate  *)
(* of src/shape/compound.rs.                                               *)
(*                                                                         *)
(* Reals are modelled by integers.  Lengths are integer units, angles are  *)
(* thousandths of a degree (pi = 180000).  Vectors and points are          *)
(* sequences of `dim` integers.  Rotations are quarter turns in the xy     *)
(* plane, so that every transformed coordinate stays an integer.           *)
(***************************************************************************)
EXTENDS Integers, Sequences, FiniteSets, TLC

VARIABLES
    dim,        \* build configuration: 2 (feature dim2) or 3 (feature dim3)
    real,       \* build configuration: "f32" or "f64" (the Real scalar)
    input,      \* the Vec<(Isometry, SharedShape)> the caller assembles, or the
                \* deserialized value the caller converted
    outcome,    \* "pending", or how Compound::new ended
    examined,   \* number of children whose Aabb Compound::new computed
    subject,    \* Option<shape>: the shape the queries are made on
    ret         \* the last query and what it returned

vars == <<dim, real, input, outcome, examined, subject, ret>>

\* ------------------------------------------------------------------ bounds

MaxChildren == 2

MaxPolygons == 3

\* ----------------------------------------------------------- Option values

None == [tag |-> "None"]

Some(x) == [tag |-> "Some", val |-> x]

is_some(o) == o.tag = "Some"

\* ------------------------------------------------------------ scalar kernel

pi == 180000

frac_pi_2 == pi \div 2

frac_pi_4 == pi \div 4

F32_MAX == 1000000

F64_MAX == 2000000

\* Real::MAX of the configured scalar.
REAL_MAX == IF real = "f32" THEN F32_MAX ELSE F64_MAX

min(a, b) == IF a <= b THEN a ELSE b

max(a, b) == IF a >= b THEN a ELSE b

\* RealField::atan2(y, x) in thousandths of a degree, for the arguments the
\* model's cones use (y, x >= 0).
atan2(y, x) ==
    CASE y = 0 -> 0
      [] x = 0 -> 90000
      [] y = x -> 45000
      [] 2 * y = x -> 26565
      [] y = 2 * x -> 63435
      [] OTHER -> 45000

\* ------------------------------------------------------------ vector kernel

Vec(x, y, z) == IF dim = 2 THEN <<x, y>> ELSE <<x, y, z>>

repeat(x) == [k \in 1..dim |-> x]

vadd(u, v) == [k \in 1..Len(u) |-> u[k] + v[k]]

component_mul(u, v) == [k \in 1..Len(u) |-> u[k] * v[k]]

vmin(u, v) == [k \in 1..Len(u) |-> min(u[k], v[k])]

vmax(u, v) == [k \in 1..Len(u) |-> max(u[k], v[k])]

\* The smallest component of a vector.
vec_min(v) == CHOOSE m \in {v[k] : k \in 1..Len(v)} : \A k \in 1..Len(v) : m <= v[k]

\* One quarter turn in the xy plane: (x, y) -> (-y, x).
Quarter(v) == [k \in 1..Len(v) |-> IF k = 1 THEN 0 - v[2] ELSE IF k = 2 THEN v[1] ELSE v[k]]

RECURSIVE Rotate(_, _)
Rotate(q, v) == IF q = 0 THEN v ELSE Rotate(q - 1, Quarter(v))

\* An isometry: a rotation (quarter turns) followed by a translation.
Isometry(t, q) == [translation |-> t, rotation |-> q]

identity == Isometry(repeat(0), 0)

\* pos * point
transform_point(pos, p) == vadd(Rotate(pos.rotation, p), pos.translation)

\* ------------------------------------------------------------ Aabb kernel

Aabb(mins, maxs) == [mins |-> mins, maxs |-> maxs]

\* Aabb::new_invalid(): the identity of merge.
new_invalid == Aabb(repeat(REAL_MAX), repeat(0 - REAL_MAX))

\* Aabb::merged / Aabb::merge
merged(a, b) == Aabb(vmin(a.mins, b.mins), vmax(a.maxs, b.maxs))

\* Aabb::loosened(amount)
loosened(a, amount) ==
    Aabb([k \in 1..Len(a.mins) |-> a.mins[k] - amount],
         [k \in 1..Len(a.maxs) |-> a.maxs[k] + amount])

\* Aabb::half_extents()
half_extents(a) == [k \in 1..Len(a.mins) |-> (a.maxs[k] - a.mins[k]) \div 2]

\* Whether `a` contains `b`.
contains(a, b) ==
    \A k \in 1..Len(a.mins) : a.mins[k] <= b.mins[k] /\ b.maxs[k] <= a.maxs[k]

\* The bounding box of a non-empty set of points.
bounds_of(P) ==
    LET d == Len(CHOOSE p \in P : TRUE)
    IN  Aabb([k \in 1..d |-> CHOOSE m \in {p[k] : p \in P} : \A p \in P : m <= p[k]],
             [k \in 1..d |-> CHOOSE m \in {p[k] : p \in P} : \A p \in P : m >= p[k]])

\* The corners of a box.
corners(a) ==
    {[k \in 1..Len(a.mins) |-> IF k \in S THEN a.maxs[k] ELSE a.mins[k]] :
        S \in SUBSET (1..Len(a.mins))}

\* Aabb::transform_by(pos): the box of the transformed box.
transform_by(a, pos) == bounds_of({transform_point(pos, c) : c \in corners(a)})

\* ------------------------------------------------------ BoundingSphere kernel

BoundingSphere(center, radius) == [center |-> center, radius |-> radius]

abs(x) == IF x >= 0 THEN x ELSE 0 - x

\* Vector::norm(), rounded up to the next integer.  A component whose square
\* leaves the range of the scalar gives the largest value of the scalar.
norm(v) ==
    IF \E k \in 1..Len(v) : v[k] # 0 /\ abs(v[k]) > REAL_MAX \div abs(v[k])
    THEN REAL_MAX
    ELSE LET sq == v[1] * v[1] + v[2] * v[2] + (IF Len(v) = 3 THEN v[3] * v[3] ELSE 0)
             top == abs(v[1]) + abs(v[2]) + (IF Len(v) = 3 THEN abs(v[3]) ELSE 0)
         IN  CHOOSE r \in 0..top : r * r >= sq /\ (r = 0 \/ (r - 1) * (r - 1) < sq)

\* BoundingSphere::loosened(amount)
BoundingSphere_loosened(bs, amount) == BoundingSphere(bs.center, bs.radius + amount)

\* Aabb::center()
center(a) == [k \in 1..Len(a.mins) |-> (a.mins[k] + a.maxs[k]) \div 2]

\* Aabb::bounding_sphere(): the sphere around the box.
bounding_sphere(a) ==
    BoundingSphere(center(a), norm([k \in 1..Len(a.mins) |-> a.maxs[k] - center(a)[k]]))

\* ------------------------------------------------------------------ shapes
\* A shape value carries the concrete Rust type it is an instance of (`ty`,
\* and for RoundShape<S> the inner shape) and that type's fields.

Ball(radius) == [ty |-> "Ball", radius |-> radius]

Cuboid(h) == [ty |-> "Cuboid", half_extents |-> h]

Segment(a, b) == [ty |-> "Segment", a |-> a, b |-> b]

Capsule(a, b, radius) == [ty |-> "Capsule", segment |-> Segment(a, b), radius |-> radius]

Triangle(a, b, c) == [ty |-> "Triangle", a |-> a, b |-> b, c |-> c]

HalfSpace(normal) == [ty |-> "HalfSpace", normal |-> normal]

Voxels(voxel_size, lo, hi) == [ty |-> "Voxels", voxel_size |-> voxel_size, domain |-> Aabb(lo, hi)]

TriMesh(vertices) == [ty |-> "TriMesh", vertices |-> vertices]

Polyline(vertices) == [ty |-> "Polyline", vertices |-> vertices]

HeightField(vertices) == [ty |-> "HeightField", vertices |-> vertices]

ConvexPolygon(points) == [ty |-> "ConvexPolygon", points |-> points]

ConvexPolyhedron(points) == [ty |-> "ConvexPolyhedron", points |-> points]

Cylinder(half_height, radius) == [ty |-> "Cylinder", half_height |-> half_height, radius |-> radius]

Cone(half_height, radius) == [ty |-> "Cone", half_height |-> half_height, radius |-> radius]

RoundShape(inner_shape, border_radius) ==
    [ty |-> "RoundShape", inner_shape |-> inner_shape, border_radius |-> border_radius]

\* A user-defined shape: a type outside the closed taxonomy whose trait
\* methods answer what its fields say.
Custom(composite, box, thickness, angular) ==
    [ty |-> "Custom", composite |-> composite, meshed |-> FALSE, box |-> box,
     thickness |-> thickness, angular |-> angular]

\* A user-defined shape without the composite capability whose scale_dyn
\* answers with a triangle mesh of its scaled box.
CustomMeshed(box, thickness, angular) ==
    [ty |-> "Custom", composite |-> FALSE, meshed |-> TRUE, box |-> box,
     thickness |-> thickness, angular |-> angular]

\* The identity of the concrete type behind a `dyn Shape` (TypeId).
TypeId(base, param) == [base |-> base, param |-> param]

type_id(s) ==
    IF s.ty = "RoundShape" THEN TypeId("RoundShape", s.inner_shape.ty) ELSE TypeId(s.ty, "")

\* The vertices a point-based shape is the hull (or union of parts) of.
points_of(s) ==
    CASE s.ty = "Segment" -> {s.a, s.b}
      [] s.ty = "Triangle" -> {s.a, s.b, s.c}
      [] s.ty \in {"TriMesh", "Polyline", "HeightField"} -> {s.vertices[k] : k \in 1..Len(s.vertices)}
      [] s.ty \in {"ConvexPolygon", "ConvexPolyhedron"} -> {s.points[k] : k \in 1..Len(s.points)}

\* The inherent local_aabb() of each concrete sharp type.
local_aabb(s) ==
    CASE s.ty = "Ball" -> Aabb(repeat(0 - s.radius), repeat(s.radius))
      [] s.ty = "Cuboid" ->
            Aabb([k \in 1..dim |-> 0 - s.half_extents[k]], s.half_extents)
      [] s.ty = "Capsule" -> loosened(bounds_of({s.segment.a, s.segment.b}), s.radius)
      [] s.ty \in {"Cylinder", "Cone"} ->
            Aabb(Vec(0 - s.radius, 0 - s.half_height, 0 - s.radius),
                 Vec(s.radius, s.half_height, s.radius))
      [] s.ty = "HalfSpace" ->
            Aabb(repeat(0 - (REAL_MAX \div 2)), repeat(REAL_MAX \div 2))
      [] s.ty = "Voxels" -> s.domain
      [] OTHER -> bounds_of(points_of(s))

\* The inherent aabb(pos) of each concrete sharp type.
aabb(s, pos) ==
    CASE s.ty = "Ball" ->
            Aabb([k \in 1..dim |-> pos.translation[k] - s.radius],
                 [k \in 1..dim |-> pos.translation[k] + s.radius])
      [] s.ty = "Capsule" ->
            loosened(bounds_of({transform_point(pos, s.segment.a),
                                transform_point(pos, s.segment.b)}), s.radius)
      [] s.ty \in {"Cuboid", "Cylinder", "Cone", "HalfSpace"} ->
            transform_by(local_aabb(s), pos)
      [] OTHER -> bounds_of({transform_point(pos, p) : p \in points_of(s)})

\* The inherent local_bounding_sphere() of each concrete sharp type: a sphere
\* that bounds the shape in its local frame.
local_bounding_sphere(s) == bounding_sphere(local_aabb(s))

\* -------------------------------------------------------- the Shape trait

\* Shape::compute_local_aabb
compute_local_aabb(s) ==
    CASE s.ty = "Compound" -> s.aabb
      [] s.ty = "RoundShape" -> loosened(local_aabb(s.inner_shape), s.border_radius)
      [] s.ty = "Custom" -> s.box
      [] OTHER -> local_aabb(s)

\* compute_aabb with the round macro loosening by the border radius twice.
compute_aabb_RoundTwice(s, position) ==
    CASE s.ty \in {"Voxels", "Custom"} -> transform_by(compute_local_aabb(s), position)
      [] s.ty = "Compound" -> transform_by(s.aabb, position)
      [] s.ty = "RoundShape" -> loosened(aabb(s.inner_shape, position), 2 * s.border_radius)
      [] OTHER -> aabb(s, position)

\* Shape::compute_aabb: the default, and the overrides of the implementations.
compute_aabb(s, position) ==
    CASE s.ty \in {"Voxels", "Custom"} -> transform_by(compute_local_aabb(s), position)
      [] s.ty = "Compound" -> transform_by(s.aabb, position)
      [] s.ty = "RoundShape" -> loosened(aabb(s.inner_shape, position), s.border_radius)
      [] OTHER -> aabb(s, position)

\* compute_local_bounding_sphere with the round macro leaving the sphere of
\* the inner shape as it is.
compute_local_bounding_sphere_RoundNotLoosened(s) ==
    CASE s.ty = "Compound" -> bounding_sphere(s.aabb)
      [] s.ty = "RoundShape" -> local_bounding_sphere(s.inner_shape)
      [] s.ty = "Custom" -> bounding_sphere(s.box)
      [] OTHER -> local_bounding_sphere(s)

\* Shape::compute_local_bounding_sphere
compute_local_bounding_sphere(s) ==
    CASE s.ty = "Compound" -> bounding_sphere(s.aabb)
      [] s.ty = "RoundShape" ->
            BoundingSphere_loosened(local_bounding_sphere(s.inner_shape), s.border_radius)
      [] s.ty = "Custom" -> bounding_sphere(s.box)
      [] OTHER -> local_bounding_sphere(s)

\* compute_swept_aabb answering the box at the end position alone.
compute_swept_aabb_EndOnly(s, start_pos, end_pos) == compute_aabb(s, end_pos)

\* Shape::compute_swept_aabb
compute_swept_aabb(s, start_pos, end_pos) ==
    merged(compute_aabb(s, start_pos), compute_aabb(s, end_pos))

\* Shape::is_convex: false by default.
RECURSIVE is_convex(_)
is_convex(s) ==
    CASE s.ty \in {"Ball", "Cuboid", "Capsule", "Triangle", "Segment", "ConvexPolygon",
                   "ConvexPolyhedron", "Cylinder", "Cone", "HalfSpace"} -> TRUE
      [] s.ty = "RoundShape" -> is_convex(s.inner_shape)
      [] OTHER -> FALSE

\* as_support_map with Capsule left on the default.
as_support_map_CapsuleDefault(s) ==
    IF s.ty \in {"Ball", "Cuboid", "Triangle", "Segment", "ConvexPolygon",
                 "ConvexPolyhedron", "Cylinder", "Cone", "RoundShape"}
    THEN Some(s) ELSE None

\* Shape::as_support_map: None by default.
as_support_map(s) ==
    IF s.ty \in {"Ball", "Cuboid", "Capsule", "Triangle", "Segment", "ConvexPolygon",
                 "ConvexPolyhedron", "Cylinder", "Cone", "RoundShape"}
    THEN Some(s) ELSE None

\* as_polygonal_feature_map with a rounded shape reporting no border.
as_polygonal_feature_map_RoundSharp(s) ==
    CASE s.ty \in {"Cuboid", "Triangle", "Segment", "ConvexPolygon", "ConvexPolyhedron",
                   "Cylinder", "Cone"} -> Some(<<s, 0>>)
      [] s.ty = "Capsule" -> Some(<<s.segment, s.radius>>)
      [] s.ty = "RoundShape" -> Some(<<s.inner_shape, 0>>)
      [] OTHER -> None

\* Shape::as_polygonal_feature_map: the feature map and its border radius,
\* None by default.
as_polygonal_feature_map(s) ==
    CASE s.ty \in {"Cuboid", "Triangle", "Segment", "ConvexPolygon", "ConvexPolyhedron",
                   "Cylinder", "Cone"} -> Some(<<s, 0>>)
      [] s.ty = "Capsule" -> Some(<<s.segment, s.radius>>)
      [] s.ty = "RoundShape" -> Some(<<s.inner_shape, s.border_radius>>)
      [] OTHER -> None

\* Shape::as_composite_shape: None by default.
as_composite_shape(s) ==
    CASE s.ty \in {"Compound", "Polyline", "TriMesh"} -> Some(s)
      [] s.ty = "Custom" -> IF s.composite THEN Some(s) ELSE None
      [] OTHER -> None

\* round_tag with the tags of the first two invocations exchanged.
round_tag_Exchanged(inner_ty) ==
    CASE inner_ty = "Cuboid" -> "RoundTriangle"
      [] inner_ty = "Triangle" -> "RoundCuboid"
      [] inner_ty = "ConvexPolygon" -> "RoundConvexPolygon"
      [] inner_ty = "Cylinder" -> "RoundCylinder"
      [] inner_ty = "Cone" -> "RoundCone"
      [] inner_ty = "ConvexPolyhedron" -> "RoundConvexPolyhedron"

\* The $Tag of each impl_shape_for_round_shape! invocation.
round_tag(inner_ty) ==
    CASE inner_ty = "Cuboid" -> "RoundCuboid"
      [] inner_ty = "Triangle" -> "RoundTriangle"
      [] inner_ty = "ConvexPolygon" -> "RoundConvexPolygon"
      [] inner_ty = "Cylinder" -> "RoundCylinder"
      [] inner_ty = "Cone" -> "RoundCone"
      [] inner_ty = "ConvexPolyhedron" -> "RoundConvexPolyhedron"

\* Shape::shape_type
shape_type(s) ==
    CASE s.ty = "RoundShape" -> round_tag(s.inner_shape.ty)
      [] s.ty = "Ball" -> "Ball"
      [] s.ty = "Cuboid" -> "Cuboid"
      [] s.ty = "Capsule" -> "Capsule"
      [] s.ty = "Triangle" -> "Triangle"
      [] s.ty = "Segment" -> "Segment"
      [] s.ty = "Compound" -> "Compound"
      [] s.ty = "Polyline" -> "Polyline"
      [] s.ty = "TriMesh" -> "TriMesh"
      [] s.ty = "HeightField" -> "HeightField"
      [] s.ty = "ConvexPolygon" -> "ConvexPolygon"
      [] s.ty = "ConvexPolyhedron" -> "ConvexPolyhedron"
      [] s.ty = "Cylinder" -> "Cylinder"
      [] s.ty = "Cone" -> "Cone"
      [] s.ty = "HalfSpace" -> "HalfSpace"
      [] s.ty = "Voxels" -> "Voxels"
      [] s.ty = "Custom" -> "Custom"

\* A variant of the TypedShape enum: its tag and the borrowed shape.
TypedShape(tag, shape) == [tag |-> tag, shape |-> shape]

\* as_typed_shape with Capsule answering the Ball variant.
as_typed_shape_CapsuleAsBall(s) ==
    CASE s.ty = "RoundShape" -> TypedShape(round_tag(s.inner_shape.ty), s)
      [] s.ty = "Capsule" -> TypedShape("Ball", s)
      [] OTHER -> TypedShape(s.ty, s)

\* Shape::as_typed_shape: every implementation wraps self in the variant
\* named after its type; the round macro uses its $Tag.
as_typed_shape(s) ==
    CASE s.ty = "RoundShape" -> TypedShape(round_tag(s.inner_shape.ty), s)
      [] s.ty \in {"Ball", "Cuboid", "Capsule", "Triangle", "Segment", "Compound",
                   "Polyline", "TriMesh", "HeightField", "ConvexPolygon",
                   "ConvexPolyhedron", "Cylinder", "Cone", "HalfSpace", "Voxels"} ->
            TypedShape(s.ty, s)
      [] s.ty = "Custom" -> TypedShape("Custom", s)

RECURSIVE ccd_thickness(_)

\* The fold of Compound::ccd_thickness over the remaining children:
\* |curr, (_, s)| curr.min(s.ccd_thickness())
RECURSIVE fold_ccd_thickness(_, _)
fold_ccd_thickness(curr, shapes) ==
    IF shapes = <<>> THEN curr
    ELSE fold_ccd_thickness(min(curr, ccd_thickness(Head(shapes)[2])), Tail(shapes))

\* Compound::ccd_thickness folding from zero instead of Real::MAX.
Compound_ccd_thickness_FromZero(s) == fold_ccd_thickness(0, s.shapes)

\* Compound::ccd_thickness
Compound_ccd_thickness(s) == fold_ccd_thickness(REAL_MAX, s.shapes)

\* The round macro's ccd_thickness without the border radius.
Round_ccd_thickness_NoRadius(s) == ccd_thickness(s.inner_shape)

\* The round macro's ccd_thickness
Round_ccd_thickness(s) == ccd_thickness(s.inner_shape) + s.border_radius

\* Shape::ccd_thickness
ccd_thickness(s) ==
    CASE s.ty \in {"Ball", "Capsule", "Cylinder", "Cone"} -> s.radius
      [] s.ty = "Cuboid" -> vec_min(s.half_extents)
      [] s.ty \in {"Triangle", "Segment", "Polyline", "TriMesh", "HeightField"} -> 0
      [] s.ty = "Compound" -> Compound_ccd_thickness(s)
      [] s.ty \in {"ConvexPolygon", "ConvexPolyhedron"} ->
            vec_min(half_extents(compute_local_aabb(s)))
      [] s.ty = "HalfSpace" -> F32_MAX
      [] s.ty = "Voxels" -> vec_min(s.voxel_size)
      [] s.ty = "RoundShape" -> Round_ccd_thickness(s)
      [] s.ty = "Custom" -> s.thickness

\* Cone::ccd_angular_thickness without the bound of the basis angle.
Cone_ccd_angular_thickness_ApexOnly(s) == atan2(s.radius, s.half_height) * 2

\* Cone::ccd_angular_thickness
Cone_ccd_angular_thickness(s) ==
    LET apex_half_angle == atan2(s.radius, s.half_height)
        basis_angle == frac_pi_2 - apex_half_angle
    IN  min(basis_angle, apex_half_angle * 2)

RECURSIVE ccd_angular_thickness(_)

\* The fold of Compound::ccd_angular_thickness over the remaining children:
\* |curr, (_, s)| curr.max(s.ccd_angular_thickness())
RECURSIVE fold_ccd_angular_thickness(_, _)
fold_ccd_angular_thickness(curr, shapes) ==
    IF shapes = <<>> THEN curr
    ELSE fold_ccd_angular_thickness(max(curr, ccd_angular_thickness(Head(shapes)[2])),
                                    Tail(shapes))

\* Compound::ccd_angular_thickness
Compound_ccd_angular_thickness(s) == fold_ccd_angular_thickness(REAL_MAX, s.shapes)

\* Shape::ccd_angular_thickness
ccd_angular_thickness(s) ==
    CASE s.ty \in {"Ball", "HalfSpace"} -> pi
      [] s.ty \in {"Cuboid", "Capsule", "Triangle", "Segment", "Cylinder", "Voxels"} -> frac_pi_2
      [] s.ty \in {"Polyline", "TriMesh", "HeightField", "ConvexPolygon", "ConvexPolyhedron"} ->
            frac_pi_4
      [] s.ty = "Compound" -> Compound_ccd_angular_thickness(s)
      [] s.ty = "Cone" -> Cone_ccd_angular_thickness(s)
      [] s.ty = "RoundShape" -> ccd_angular_thickness(s.inner_shape)
      [] s.ty = "Custom" -> s.angular

\* MassProperties: the integration kernel a shape hands its density and its
\* geometry to, or the zero value.
MassProperties(kernel, density, geometry) ==
    [kernel |-> kernel, density |-> density, geometry |-> geometry]

\* MassProperties::zero()
MassProperties_zero == [kernel |-> "zero"]

RECURSIVE mass_properties(_, _)

\* The round macro's mass_properties integrating the inflated shape.
Round_mass_properties_Inflated(s, density) ==
    MassProperties("from_rounded", density,
                   <<mass_properties(s.inner_shape, density), s.border_radius>>)

\* The round macro's mass_properties
Round_mass_properties(s, density) == mass_properties(s.inner_shape, density)

\* Shape::mass_properties
mass_properties(s, density) ==
    CASE s.ty = "Ball" -> MassProperties("from_ball", density, <<s.radius>>)
      [] s.ty = "Cuboid" -> MassProperties("from_cuboid", density, <<s.half_extents>>)
      [] s.ty = "Capsule" ->
            MassProperties("from_capsule", density, <<s.segment.a, s.segment.b, s.radius>>)
      [] s.ty = "Triangle" ->
            IF dim = 2
            THEN MassProperties("from_triangle", density, <<s.a, s.b, s.c>>)
            ELSE MassProperties_zero
      [] s.ty \in {"Segment", "Polyline", "HeightField", "HalfSpace"} -> MassProperties_zero
      [] s.ty = "Compound" -> MassProperties("from_compound", density, <<s.shapes>>)
      [] s.ty = "TriMesh" -> MassProperties("from_trimesh", density, <<s.vertices>>)
      [] s.ty = "ConvexPolygon" ->
            MassProperties("from_convex_polygon", density, <<s.points>>)
      [] s.ty = "ConvexPolyhedron" ->
            MassProperties("from_convex_polyhedron", density, <<s.points>>)
      [] s.ty = "Cylinder" ->
            MassProperties("from_cylinder", density, <<s.half_height, s.radius>>)
      [] s.ty = "Cone" -> MassProperties("from_cone", density, <<s.half_height, s.radius>>)
      [] s.ty = "Voxels" -> MassProperties("from_voxels", density, <<s>>)
      [] s.ty = "RoundShape" -> Round_mass_properties(s, density)
      [] s.ty = "Custom" -> MassProperties("user", density, <<s.box>>)

\* ------------------------------------------------------------- downcasting

\* ShapeType tags of the configured dimension; Custom has no accessor.
AccessorKinds ==
    {"Ball", "Cuboid", "HalfSpace", "Segment", "Capsule", "Triangle", "Voxels", "Compound",
     "TriMesh", "Polyline", "HeightField", "RoundCuboid", "RoundTriangle"}
    \cup (IF dim = 2
          THEN {"ConvexPolygon", "RoundConvexPolygon"}
          ELSE {"ConvexPolyhedron", "Cylinder", "Cone", "RoundCylinder", "RoundCone",
                "RoundConvexPolyhedron"})

\* The concrete type each as_<kind> accessor downcasts to (its return type).
accessor_type(K) ==
    CASE K = "Ball" -> TypeId("Ball", "")
      [] K = "Cuboid" -> TypeId("Cuboid", "")
      [] K = "HalfSpace" -> TypeId("HalfSpace", "")
      [] K = "Segment" -> TypeId("Segment", "")
      [] K = "Capsule" -> TypeId("Capsule", "")
      [] K = "Triangle" -> TypeId("Triangle", "")
      [] K = "Voxels" -> TypeId("Voxels", "")
      [] K = "Compound" -> TypeId("Compound", "")
      [] K = "TriMesh" -> TypeId("TriMesh", "")
      [] K = "Polyline" -> TypeId("Polyline", "")
      [] K = "HeightField" -> TypeId("HeightField", "")
      [] K = "RoundCuboid" -> TypeId("RoundShape", "Cuboid")
      [] K = "RoundTriangle" -> TypeId("RoundShape", "Triangle")
      [] K = "ConvexPolygon" -> TypeId("ConvexPolygon", "")
      [] K = "RoundConvexPolygon" -> TypeId("RoundShape", "ConvexPolygon")
      [] K = "ConvexPolyhedron" -> TypeId("ConvexPolyhedron", "")
      [] K = "Cylinder" -> TypeId("Cylinder", "")
      [] K = "Cone" -> TypeId("Cone", "")
      [] K = "RoundCylinder" -> TypeId("RoundShape", "Cylinder")
      [] K = "RoundCone" -> TypeId("RoundShape", "Cone")
      [] K = "RoundConvexPolyhedron" -> TypeId("RoundShape", "ConvexPolyhedron")

\* downcast_rs: Some exactly when the concrete type is the requested one.
downcast_ref(s, T) == IF type_id(s) = T THEN Some(s) ELSE None

\* dyn Shape::as_ball .. as_round_convex_polyhedron
as_kind(s, K) == downcast_ref(s, accessor_type(K))

\* downcast_rs: the mutable borrow of the shape, Some exactly when the
\* concrete type is the requested one.
downcast_mut(s, T) == IF type_id(s) = T THEN Some(s) ELSE None

\* dyn Shape::as_ball_mut .. as_round_convex_polyhedron_mut
as_kind_mut(s, K) == downcast_mut(s, accessor_type(K))

\* --------------------------------------------------------- deserialization

\* A value of the DeserializableTypedShape enum: a variant with its payload,
\* or the unit variant Custom.
DeserializableTypedShape(tag, payload) == [tag |-> tag, payload |-> payload]

DeserializableCustom == [tag |-> "Custom"]

\* SharedShape::new: the shape behind a shared pointer.
SharedShape_new(shape) == shape

\* into_shared_shape turning the Compound variant down as well.
into_shared_shape_CompoundRejected(d) ==
    CASE d.tag \in {"Custom", "Compound"} -> None
      [] OTHER -> Some(SharedShape_new(d.payload))

\* DeserializableTypedShape::into_shared_shape
into_shared_shape(d) ==
    CASE d.tag = "Custom" -> None
      [] d.tag \in {"Ball", "Cuboid", "Capsule", "Segment", "Triangle", "Voxels", "TriMesh",
                    "Polyline", "HalfSpace", "HeightField", "Compound", "ConvexPolygon",
                    "ConvexPolyhedron", "Cylinder", "Cone", "RoundCuboid", "RoundTriangle",
                    "RoundCylinder", "RoundCone", "RoundConvexPolyhedron",
                    "RoundConvexPolygon"} -> Some(SharedShape_new(d.payload))

\* ---------------------------------------------------------------- Compound

\* Bvh::from_iter(BvhBuildStrategy::Binned, leaves): the tree is static and its
\* leaves are the staged (index, Aabb) pairs.
Bvh_from_iter(leaves) == [leaves |-> {leaves[k] : k \in 1..Len(leaves)}]

\* The nested-composite test looking for Compound children only.
rejects_OnlyCompound(shape) == shape.ty = "Compound"

\* The nested-composite test as a list of kinds that holds Custom.
rejects_ByKind(shape) ==
    shape_type(shape) \in {"Compound", "Polyline", "TriMesh", "Custom"}

\* The nested-composite test of the constructor's loop.
rejects(shape) == is_some(as_composite_shape(shape))

\* new_step overwriting the root Aabb instead of merging into it.
new_step_NoMerge(st, i, child) ==
    LET bv == compute_aabb(child[2], child[1])
    IN  [aabb |-> bv,
         aabbs |-> Append(st.aabbs, bv),
         leaves |-> Append(st.leaves, <<i, bv>>),
         examined |-> st.examined + 1,
         status |-> IF rejects(child[2]) THEN "NestedComposite" ELSE "running"]

\* new_step staging 1-based leaf payloads.
new_step_LeafOffByOne(st, i, child) ==
    LET bv == compute_aabb(child[2], child[1])
    IN  [aabb |-> merged(st.aabb, bv),
         aabbs |-> Append(st.aabbs, bv),
         leaves |-> Append(st.leaves, <<i + 1, bv>>),
         examined |-> st.examined + 1,
         status |-> IF rejects(child[2]) THEN "NestedComposite" ELSE "running"]

\* new_step testing the capability before it computes the child's box.
new_step_CheckFirst(st, i, child) ==
    LET bv == compute_aabb(child[2], child[1])
    IN  IF rejects(child[2])
        THEN [st EXCEPT !.status = "NestedComposite"]
        ELSE [aabb |-> merged(st.aabb, bv),
              aabbs |-> Append(st.aabbs, bv),
              leaves |-> Append(st.leaves, <<i, bv>>),
              examined |-> st.examined + 1,
              status |-> "running"]

\* One iteration of the constructor's loop, on child i (0-based).
new_step(st, i, child) ==
    LET bv == compute_aabb(child[2], child[1])
    IN  [aabb |-> merged(st.aabb, bv),
         aabbs |-> Append(st.aabbs, bv),
         leaves |-> Append(st.leaves, <<i, bv>>),
         examined |-> st.examined + 1,
         status |-> IF rejects(child[2]) THEN "NestedComposite" ELSE "running"]

\* The constructor's loop: it ends at the first panic.
RECURSIVE new_loop(_, _, _)
new_loop(shapes, i, st) ==
    IF i >= Len(shapes) \/ st.status # "running"
    THEN st
    ELSE new_loop(shapes, i + 1, new_step(st, i, shapes[i + 1]))

\* The constructor without its opening assertion.
new_precondition_Dropped(shapes) == TRUE

\* The assertion that opens the constructor.
new_precondition(shapes) == shapes # <<>>

\* Compound::new: how it ends, the value it returns (None on a panic) and the
\* number of children it examined.
Compound_new(shapes) ==
    IF ~new_precondition(shapes)
    THEN [status |-> "EmptyCompound", value |-> None, examined |-> 0]
    ELSE LET st == new_loop(shapes, 0,
                            [aabb |-> new_invalid, aabbs |-> <<>>, leaves |-> <<>>,
                             examined |-> 0, status |-> "running"])
         IN  IF st.status # "running"
             THEN [status |-> st.status, value |-> None, examined |-> st.examined]
             ELSE [status |-> "ok",
                   value |-> Some([ty |-> "Compound", shapes |-> shapes,
                                   bvh |-> Bvh_from_iter(st.leaves),
                                   aabbs |-> st.aabbs, aabb |-> st.aabb]),
                   examined |-> st.examined]

\* Compound::shapes
Compound_shapes(c) == c.shapes

\* Compound::aabbs
Compound_aabbs(c) == c.aabbs

\* Compound::local_aabb
Compound_local_aabb(c) == c.aabb

\* Compound::bvh
Compound_bvh(c) == c.bvh

\* A panic raised inside a call.
Panic(status) == [tag |-> "Panic", status |-> status]

\* map_part_at indexing the children as the typed variants do.
map_part_at_Indexing(c, shape_id) ==
    IF shape_id + 1 \in DOMAIN c.shapes
    THEN Some([part_pos |-> Some(c.shapes[shape_id + 1][1]),
               part |-> c.shapes[shape_id + 1][2],
               normal_constraints |-> None])
    ELSE Panic("IndexOutOfBounds")

\* CompositeShape::map_part_at for Compound: the visitor's arguments, or
\* None when the visitor is not invoked.
map_part_at(c, shape_id) ==
    IF shape_id + 1 \in DOMAIN c.shapes
    THEN Some([part_pos |-> Some(c.shapes[shape_id + 1][1]),
               part |-> c.shapes[shape_id + 1][2],
               normal_constraints |-> None])
    ELSE None

\* map_typed_part_at handing the visitor no transform.
map_typed_part_at_NoTransform(c, i) ==
    IF i + 1 \in DOMAIN c.shapes
    THEN Some([part_pos |-> None,
               part |-> c.shapes[i + 1][2],
               normal_constraints |-> None])
    ELSE Panic("IndexOutOfBounds")

\* TypedCompositeShape::map_typed_part_at for Compound: Some of the visitor's
\* arguments (the visitor ran once), or the panic of the slice index.
map_typed_part_at(c, i) ==
    IF i + 1 \in DOMAIN c.shapes
    THEN Some([part_pos |-> Some(c.shapes[i + 1][1]),
               part |-> c.shapes[i + 1][2],
               normal_constraints |-> None])
    ELSE Panic("IndexOutOfBounds")

\* TypedCompositeShape::map_untyped_part_at for Compound
map_untyped_part_at(c, i) ==
    IF i + 1 \in DOMAIN c.shapes
    THEN Some([part_pos |-> Some(c.shapes[i + 1][1]),
               part |-> c.shapes[i + 1][2],
               normal_constraints |-> None])
    ELSE Panic("IndexOutOfBounds")

\* ConvexPolygon::from_convex_polyline: None when the points span no area.
from_convex_polyline(points) ==
    IF \A i, j, k \in 1..Len(points) :
          (points[j][1] - points[i][1]) * (points[k][2] - points[i][2])
             = (points[j][2] - points[i][2]) * (points[k][1] - points[i][1])
    THEN None
    ELSE Some(ConvexPolygon(points))

\* The closure of decompose_trimesh sending every polygon to ConvexPolygon.
decompose_part_AlwaysPolygon(points) ==
    LET shape == from_convex_polyline(points)
    IN  IF is_some(shape) THEN Some(<<identity, SharedShape_new(shape.val)>>) ELSE None

\* The closure decompose_trimesh maps over the polygons.
decompose_part(points) ==
    LET shape == IF Len(points) = 3
                 THEN Some(SharedShape_new(Triangle(points[1], points[2], points[3])))
                 ELSE LET polygon == from_convex_polyline(points)
                      IN  IF is_some(polygon) THEN Some(SharedShape_new(polygon.val))
                          ELSE None
    IN  IF is_some(shape) THEN Some(<<identity, shape.val>>) ELSE None

\* collect::<Option<Vec<_>>>(): the mapped polygons up to the first None.
RECURSIVE collect_parts(_, _)
collect_parts(polygons, done) ==
    IF polygons = <<>> THEN [parts |-> Some(done), mapped |-> Len(done)]
    ELSE LET part == decompose_part(Head(polygons))
         IN  IF is_some(part) THEN collect_parts(Tail(polygons), Append(done, part.val))
             ELSE [parts |-> None, mapped |-> Len(done) + 1]

\* Compound::decompose_trimesh (dim2), on the polygons hertel_mehlhorn gives:
\* how it ends, the value it returns and the number of polygons it mapped.
decompose_trimesh(polygons) ==
    LET shapes == collect_parts(polygons, <<>>)
    IN  IF ~is_some(shapes.parts)
        THEN [status |-> "DegenerateDecomposition", value |-> None, examined |-> shapes.mapped]
        ELSE LET r == Compound_new(shapes.parts.val)
             IN  [status |-> r.status, value |-> r.value, examined |-> shapes.mapped]

\* ----------------------------------------------------------------- scaling

\* Whether all the components of a scale are the same.
is_uniform(scale) == \A k \in 1..Len(scale) : scale[k] = scale[1]

\* Whether a scale flattens the geometry along an axis.
flattens(scale) == \E k \in 1..Len(scale) : scale[k] = 0

scale_points(points, scale) == [k \in 1..Len(points) |-> component_mul(points[k], scale)]

\* The points c + r e_k and c - r e_k of every axis k.
axis_points(c, r) ==
    [k \in 1..(2 * dim) |->
        [j \in 1..dim |->
            IF j = (k + 1) \div 2 THEN (IF k % 2 = 1 THEN c[j] + r ELSE c[j] - r) ELSE c[j]]]

\* The outline a round shape is discretised to before a non-uniform scale.
outline(s) ==
    CASE s.ty = "Ball" -> axis_points(repeat(0), s.radius)
      [] s.ty = "Capsule" ->
            axis_points(s.segment.a, s.radius) \o axis_points(s.segment.b, s.radius)
      [] s.ty = "Cylinder" ->
            <<Vec(s.radius, s.half_height, 0), Vec(0 - s.radius, s.half_height, 0),
              Vec(0, s.half_height, s.radius), Vec(0, s.half_height, 0 - s.radius),
              Vec(s.radius, 0 - s.half_height, 0), Vec(0 - s.radius, 0 - s.half_height, 0),
              Vec(0, 0 - s.half_height, s.radius), Vec(0, 0 - s.half_height, 0 - s.radius)>>
      [] s.ty = "Cone" ->
            <<Vec(0, s.half_height, 0),
              Vec(s.radius, 0 - s.half_height, 0), Vec(0 - s.radius, 0 - s.half_height, 0),
              Vec(0, 0 - s.half_height, s.radius), Vec(0, 0 - s.half_height, 0 - s.radius)>>

\* The convex polytope of the scaled points: None when the scale makes the
\* geometry degenerate.
polytope(points, scale) ==
    IF flattens(scale) THEN None
    ELSE Some(IF dim = 2 THEN ConvexPolygon(scale_points(points, scale))
              ELSE ConvexPolyhedron(scale_points(points, scale)))

\* Unit::try_new: exact for the axis-aligned vectors the model uses.
try_normalize(v) ==
    IF norm(v) = 0 THEN None
    ELSE Some([k \in 1..Len(v) |-> IF v[k] > 0 THEN 1 ELSE IF v[k] < 0 THEN 0 - 1 ELSE 0])

\* The inherent scaled() of each concrete sharp type, as an Option (the types
\* whose scaled() cannot fail always answer Some) that holds either side of
\* the Either of Ball, Capsule, Cylinder and Cone.
scaled(s, scale) ==
    CASE s.ty = "Ball" ->
            IF is_uniform(scale) THEN Some(Ball(s.radius * abs(scale[1])))
            ELSE polytope(outline(s), scale)
      [] s.ty = "Cuboid" -> Some(Cuboid(component_mul(s.half_extents, scale)))
      [] s.ty = "Capsule" ->
            IF is_uniform(scale)
            THEN Some(Capsule(component_mul(s.segment.a, scale),
                              component_mul(s.segment.b, scale), s.radius * abs(scale[1])))
            ELSE polytope(outline(s), scale)
      [] s.ty = "Triangle" ->
            Some(Triangle(component_mul(s.a, scale), component_mul(s.b, scale),
                          component_mul(s.c, scale)))
      [] s.ty = "Segment" ->
            Some(Segment(component_mul(s.a, scale), component_mul(s.b, scale)))
      [] s.ty \in {"Polyline", "TriMesh", "HeightField"} ->
            Some([s EXCEPT !.vertices = scale_points(s.vertices, scale)])
      [] s.ty \in {"ConvexPolygon", "ConvexPolyhedron"} -> polytope(s.points, scale)
      [] s.ty \in {"Cylinder", "Cone"} ->
            IF scale[1] # scale[3] THEN polytope(outline(s), scale)
            ELSE Some([s EXCEPT !.half_height = s.half_height * scale[2],
                                !.radius = s.radius * scale[1]])
      [] s.ty = "HalfSpace" ->
            LET n == try_normalize(component_mul(s.normal, scale))
            IN  IF is_some(n) THEN Some(HalfSpace(n.val)) ELSE None
      [] s.ty = "Voxels" ->
            Some(Voxels(component_mul(s.voxel_size, scale),
                        component_mul(s.domain.mins, scale),
                        component_mul(s.domain.maxs, scale)))

RECURSIVE scale_dyn(_, _)

\* The scale closure of the round macro resetting the border radius.
Round_scale_dyn_RadiusReset(s, scale) ==
    LET inner == scaled(s.inner_shape, scale)
    IN  IF is_some(inner) THEN Some(RoundShape(inner.val, 0)) ELSE None

\* The scale closures of the impl_shape_for_round_shape! invocations: the
\* scaled inner shape (either side of the Either) under the same border radius.
Round_scale_dyn(s, scale) ==
    LET inner == scaled(s.inner_shape, scale)
    IN  IF is_some(inner) THEN Some(RoundShape(inner.val, s.border_radius)) ELSE None

\* Compound::scale_dyn
Compound_scale_dyn(s, scale) ==
    LET parts == [k \in 1..Len(s.shapes) |-> scale_dyn(s.shapes[k][2], scale)]
    IN  IF \E k \in 1..Len(s.shapes) : ~is_some(parts[k]) THEN None
        ELSE LET r == Compound_new([k \in 1..Len(s.shapes) |->
                                       <<Isometry(component_mul(s.shapes[k][1].translation,
                                                                scale),
                                                  s.shapes[k][1].rotation),
                                         parts[k].val>>])
             IN  IF r.status = "ok" THEN r.value ELSE Panic(r.status)

\* Shape::scale_dyn.  The number of subdivisions only refines the outline of
\* a discretised shape and is left out.
scale_dyn(s, scale) ==
    CASE s.ty \in {"Ball", "Capsule", "Cylinder", "Cone", "ConvexPolygon",
                   "ConvexPolyhedron", "HalfSpace"} -> scaled(s, scale)
      [] s.ty \in {"Cuboid", "Triangle", "Segment", "Polyline", "TriMesh", "HeightField",
                   "Voxels"} -> Some(scaled(s, scale).val)
      [] s.ty = "Compound" -> Compound_scale_dyn(s, scale)
      [] s.ty = "RoundShape" -> Round_scale_dyn(s, scale)
      [] s.ty = "Custom" ->
            LET box == Aabb(component_mul(s.box.mins, scale),
                            component_mul(s.box.maxs, scale))
            IN  IF s.meshed
                THEN Some(TriMesh(<<box.mins, box.maxs>>))
                ELSE Some([s EXCEPT !.box = box])

\* ------------------------------------------------------ the shapes explored

Origin == Vec(0, 0, 0)

UnitBox == Aabb(Vec(-1, -1, -1), Vec(1, 1, 1))

SquareVertices == <<Origin, Vec(2, 0, 0), Vec(2, 2, 0), Vec(0, 2, 0)>>

SolidVertices == <<Origin, Vec(4, 0, 0), Vec(0, 2, 0), Vec(0, 0, 6)>>

\* Sharp shapes of both dimensions.
CommonShapes ==
    {Ball(1), Ball(2), Cuboid(Vec(1, 1, 1)), Cuboid(Vec(2, 1, 3)),
     Capsule(Vec(0, -1, 0), Vec(0, 1, 0), 1),
     Segment(Origin, Vec(2, 0, 0)),
     Triangle(Origin, Vec(2, 0, 0), Vec(0, 2, 0)),
     HalfSpace(Vec(0, 1, 0)),
     Voxels(Vec(1, 1, 1), Origin, Vec(2, 1, 1)),
     TriMesh(SquareVertices), Polyline(SquareVertices), HeightField(SquareVertices),
     RoundShape(Cuboid(Vec(1, 2, 3)), 1),
     RoundShape(Triangle(Origin, Vec(2, 0, 0), Vec(0, 2, 0)), 2)}

\* Shapes that exist in one dimension only.
DimShapes ==
    IF dim = 2
    THEN {ConvexPolygon(SquareVertices), RoundShape(ConvexPolygon(SquareVertices), 1)}
    ELSE {ConvexPolyhedron(SolidVertices), RoundShape(ConvexPolyhedron(SolidVertices), 1),
          Cylinder(1, 1), Cylinder(2, 1), Cone(1, 1), Cone(2, 1), Cone(1, 2), Cone(2, 2),
          RoundShape(Cylinder(1, 2), 1), RoundShape(Cone(2, 1), 1)}

\* User-defined shapes, with and without the composite capability.
CustomShapes ==
    {Custom(TRUE, UnitBox, 1, frac_pi_2), Custom(FALSE, UnitBox, 1, frac_pi_2),
     CustomMeshed(UnitBox, 1, frac_pi_2)}

translate(x, y) == Isometry(Vec(x, y, 0), 0)

\* Compounds built by the constructor, among them end-to-end scenario 1.
SampleCompounds ==
    {Compound_new(xs).value.val :
        xs \in {<< <<identity, Ball(1)>>, <<translate(3, 0), Cuboid(Vec(1, 1, 1))>> >>,
                << <<identity, Segment(Origin, Vec(2, 0, 0))>> >>,
                << <<Isometry(Vec(0, 1, 0), 1), Cuboid(Vec(2, 1, 3))>>,
                   <<identity, HalfSpace(Vec(0, 1, 0))>> >>}}

\* A Cuboid whose finite half-extents only the f64 scalar can hold.
WideShapes ==
    IF real = "f64" THEN {Cuboid(repeat(F32_MAX + F32_MAX \div 2))} ELSE {}

\* The built-in shapes (the closed taxonomy).
BuiltinShapes == CommonShapes \cup DimShapes \cup WideShapes \cup SampleCompounds

ShapeValues == BuiltinShapes \cup CustomShapes

\* The children a caller hands to Compound::new.
ChildShapes ==
    {Ball(1), HeightField(SquareVertices), Polyline(SquareVertices),
     RoundShape(Cuboid(Vec(1, 2, 3)), 1)}
    \cup {Custom(TRUE, UnitBox, 1, frac_pi_2), CustomMeshed(UnitBox, 1, frac_pi_2)}
    \cup {Compound_new(<< <<identity, Ball(1)>> >>).value.val}

\* Compounds as the derived Deserialize of the struct yields them: each of the
\* four fields is read from the payload on its own and Compound::new is not
\* called. One without children, one with a Polyline child, one whose boxes
\* are not those of its child.
DecodedCompounds ==
    {[ty |-> "Compound", shapes |-> <<>>, bvh |-> Bvh_from_iter(<<>>),
      aabbs |-> <<>>, aabb |-> new_invalid],
     [ty |-> "Compound", shapes |-> << <<identity, Polyline(SquareVertices)>> >>,
      bvh |-> Bvh_from_iter(<< <<0, compute_aabb(Polyline(SquareVertices), identity)>> >>),
      aabbs |-> <<compute_aabb(Polyline(SquareVertices), identity)>>,
      aabb |-> compute_aabb(Polyline(SquareVertices), identity)],
     [ty |-> "Compound", shapes |-> << <<identity, Ball(1)>> >>,
      bvh |-> Bvh_from_iter(<< <<0, compute_aabb(Ball(2), identity)>> >>),
      aabbs |-> <<compute_aabb(Ball(2), identity)>>,
      aabb |-> compute_aabb(Ball(2), identity)]}

\* The values the deserializer can produce: every variant of the configured
\* dimension around a shape of its payload type (the payload types are the
\* return types of the accessors of the same name), and Custom.
Decoded ==
    {DeserializableTypedShape(K, s) :
        <<K, s>> \in {x \in AccessorKinds \X (BuiltinShapes \cup DecodedCompounds) :
                         type_id(x[2]) = accessor_type(x[1])}}
    \cup {DeserializableCustom}

\* The polygons of a decomposition: a triangle, a triangle without area, a
\* square and a quadrilateral without area.
Polygons ==
    {<< <<0, 0>>, <<2, 0>>, <<0, 2>> >>,
     << <<0, 0>>, <<1, 0>>, <<2, 0>> >>,
     << <<0, 0>>, <<2, 0>>, <<2, 2>>, <<0, 2>> >>,
     << <<0, 0>>, <<1, 0>>, <<2, 0>>, <<3, 0>> >>}

\* The positions a caller asks the bounding volumes at.
Positions == {identity, Isometry(Vec(3, 0, 0), 1), Isometry(Vec(0 - 1, 2, 0), 2)}

\* The densities a caller asks the mass properties for.
Densities == {1, 2}

\* The scales a caller asks for: uniform, non-uniform and flattening.
Scales == {Vec(2, 2, 2), Vec(2, 3, 1), Vec(1, 0, 1)}

ChildDeltas == {identity, Isometry(Vec(3, 0, 0), 1)}

\* The (delta, shape) pairs a caller hands to Compound::new: every child shape
\* where it is, the ball and the rounded cuboid also moved and turned.
Children ==
    ({identity} \X ChildShapes)
    \cup (ChildDeltas \X {Ball(1), RoundShape(Cuboid(Vec(1, 2, 3)), 1)})

\* ------------------------------------------------------------------ states

NoCall == [op |-> "none"]

Configured == dim \in {2, 3} /\ real \in {"f32", "f64"}

\* A caller about to assemble the children of a Compound.
Init ==
    /\ Configured
    /\ input = <<>>
    /\ outcome = "pending"
    /\ examined = 0
    /\ subject = None
    /\ ret = NoCall

\* A caller holding one shape of the library.
InitShape ==
    /\ Configured
    /\ input = <<>>
    /\ outcome = "given"
    /\ examined = 0
    /\ subject \in {Some(s) : s \in ShapeValues}
    /\ ret = NoCall

\* A caller about to turn a deserialized value into a shape.
InitSerde ==
    /\ Configured
    /\ input = <<>>
    /\ outcome = "encoded"
    /\ examined = 0
    /\ subject = None
    /\ ret = NoCall

\* A caller about to decompose a triangle mesh.
InitDecompose ==
    /\ Configured
    /\ input = <<>>
    /\ outcome = "meshing"
    /\ examined = 0
    /\ subject = None
    /\ ret = NoCall

\* ----------------------------------------------------------------- actions

\* The caller pushes one (delta, shape) pair on the vector.
PushChild(delta, shape) ==
    /\ outcome = "pending"
    /\ Len(input) < MaxChildren
    /\ input' = Append(input, <<delta, shape>>)
    /\ UNCHANGED <<dim, real, outcome, examined, subject, ret>>

\* Compound::new(input)
CompoundNew ==
    /\ outcome = "pending"
    /\ LET r == Compound_new(input)
       IN  /\ outcome' = r.status
           /\ subject' = r.value
           /\ examined' = r.examined
    /\ UNCHANGED <<dim, real, input, ret>>

\* A call of a method of the subject that takes no argument.
Call(op, val) ==
    /\ is_some(subject)
    /\ ret' = [op |-> op, val |-> val]
    /\ UNCHANGED <<dim, real, input, outcome, examined, subject>>

\* A call of a method of the subject with one argument.
CallWith(op, arg, val) ==
    /\ is_some(subject)
    /\ ret' = [op |-> op, arg |-> arg, val |-> val]
    /\ UNCHANGED <<dim, real, input, outcome, examined, subject>>

CcdThickness == Call("ccd_thickness", ccd_thickness(subject.val))

CcdAngularThickness == Call("ccd_angular_thickness", ccd_angular_thickness(subject.val))

IsConvex == Call("is_convex", is_convex(subject.val))

AsSupportMap == Call("as_support_map", as_support_map(subject.val))

AsCompositeShape == Call("as_composite_shape", as_composite_shape(subject.val))

MassPropertiesOf(density) ==
    CallWith("mass_properties", density, mass_properties(subject.val, density))

AsPolygonalFeatureMap ==
    Call("as_polygonal_feature_map", as_polygonal_feature_map(subject.val))

ShapeType == Call("shape_type", shape_type(subject.val))

AsKind(K) == CallWith("as_kind", K, as_kind(subject.val, K))

AsKindMut(K) == CallWith("as_kind_mut", K, as_kind_mut(subject.val, K))

\* The caller assigns a value of the same concrete type through the mutable
\* borrow an as_<kind>_mut accessor returned: *borrow = value.
StoreThrough(value) ==
    /\ is_some(subject)
    /\ ret.op = "as_kind_mut"
    /\ is_some(ret.val)
    /\ type_id(value) = type_id(ret.val.val)
    /\ subject' = Some(value)
    /\ ret' = [op |-> "store_through", arg |-> ret.arg, val |-> value]
    /\ UNCHANGED <<dim, real, input, outcome, examined>>

ComputeLocalAabb == Call("compute_local_aabb", compute_local_aabb(subject.val))

ComputeLocalBoundingSphere ==
    Call("compute_local_bounding_sphere", compute_local_bounding_sphere(subject.val))

ComputeAabb(position) ==
    CallWith("compute_aabb", position, compute_aabb(subject.val, position))

AsTypedShape == Call("as_typed_shape", as_typed_shape(subject.val))

Shapes == Call("shapes", Compound_shapes(subject.val))

Aabbs == Call("aabbs", Compound_aabbs(subject.val))

LocalAabb == Call("local_aabb", Compound_local_aabb(subject.val))

BvhOf == Call("bvh", Compound_bvh(subject.val))

MapPartAt(i) == CallWith("map_part_at", i, map_part_at(subject.val, i))

MapTypedPartAt(i) == CallWith("map_typed_part_at", i, map_typed_part_at(subject.val, i))

MapUntypedPartAt(i) ==
    CallWith("map_untyped_part_at", i, map_untyped_part_at(subject.val, i))

ComputeSweptAabb(start_pos, end_pos) ==
    CallWith("compute_swept_aabb", <<start_pos, end_pos>>,
             compute_swept_aabb(subject.val, start_pos, end_pos))

ScaleDyn(scale) == CallWith("scale_dyn", scale, scale_dyn(subject.val, scale))

\* d.into_shared_shape(): `input` keeps the value that was decoded.
IntoSharedShape(d) ==
    /\ outcome = "encoded"
    /\ input' = <<d>>
    /\ outcome' = "decoded"
    /\ subject' = into_shared_shape(d)
    /\ ret' = [op |-> "into_shared_shape", arg |-> d, val |-> into_shared_shape(d)]
    /\ UNCHANGED <<dim, real, examined>>

\* hertel_mehlhorn yields one more polygon of the mesh; `input` collects them.
PushPolygon(points) ==
    /\ dim = 2
    /\ outcome = "meshing"
    /\ Len(input) < MaxPolygons
    /\ input' = Append(input, points)
    /\ UNCHANGED <<dim, real, outcome, examined, subject, ret>>

\* Compound::decompose_trimesh(trimesh)
DecomposeTrimesh ==
    /\ dim = 2
    /\ outcome = "meshing"
    /\ LET r == decompose_trimesh(input)
       IN  /\ outcome' = r.status
           /\ subject' = r.value
           /\ examined' = r.examined
    /\ UNCHANGED <<dim, real, input, ret>>

\* Construction of a Compound and the queries made on it.
Next ==
    \/ \E child \in Children : PushChild(child[1], child[2])
    \/ CompoundNew
    \/ CcdThickness
    \/ CcdAngularThickness
    \/ Shapes
    \/ Aabbs
    \/ LocalAabb
    \/ BvhOf
    \/ \E i \in 0..MaxChildren : MapPartAt(i)
    \/ \E i \in 0..MaxChildren : MapTypedPartAt(i)
    \/ \E i \in 0..MaxChildren : MapUntypedPartAt(i)
    \/ \E scale \in Scales : ScaleDyn(scale)

Spec == Init /\ [][Next]_vars

\* The queries every shape answers.
NextShape ==
    \/ CcdThickness
    \/ CcdAngularThickness
    \/ IsConvex
    \/ AsSupportMap
    \/ AsPolygonalFeatureMap
    \/ AsCompositeShape
    \/ ShapeType
    \/ AsTypedShape
    \/ ComputeLocalAabb
    \/ ComputeLocalBoundingSphere
    \/ \E position \in Positions : ComputeAabb(position)
    \/ \E start_pos \in Positions, end_pos \in Positions : ComputeSweptAabb(start_pos, end_pos)
    \/ \E scale \in Scales : ScaleDyn(scale)
    \/ \E K \in AccessorKinds : AsKind(K)
    \/ \E K \in AccessorKinds : AsKindMut(K)
    \/ \E value \in BuiltinShapes : StoreThrough(value)
    \/ \E density \in Densities : MassPropertiesOf(density)

SpecShape == InitShape /\ [][NextShape]_vars

\* Deserialization and the queries made on the resurrected shape.
NextSerde ==
    \/ \E d \in Decoded : IntoSharedShape(d)
    \/ ShapeType
    \/ AsTypedShape
    \/ CcdThickness

SpecSerde == InitSerde /\ [][NextSerde]_vars

\* The decomposition of a triangle mesh and the queries on its result.
NextDecompose ==
    \/ \E points \in Polygons : PushPolygon(points)
    \/ DecomposeTrimesh
    \/ Shapes
    \/ Aabbs
    \/ ShapeType

SpecDecompose == InitDecompose /\ [][NextDecompose]_vars

\* ------------------------------------------------------------------ claims

\* The subject is a Compound the constructor returned.
Built == outcome = "ok" /\ is_some(subject)

\* The shapes of the children of a Compound.
ChildrenOf(c) == {c.shapes[k][2] : k \in DOMAIN c.shapes}

\* The subject is a shape of the closed taxonomy.
BuiltinSubject == is_some(subject) /\ subject.val.ty # "Custom"

\* The union of a sequence of boxes, merged one by one from the invalid box.
RECURSIVE UnionOf(_)
UnionOf(boxes) ==
    IF boxes = <<>> THEN new_invalid
    ELSE merged(UnionOf(SubSeq(boxes, 1, Len(boxes) - 1)), boxes[Len(boxes)])

\* C1: after a successful Compound::new no child has a kind among TriMesh,
\* Polyline, HeightField and Compound; a children list holding a child of one
\* of these kinds is always rejected.
C1_NoCompositeKindChild ==
    /\ Built =>
         \A s \in ChildrenOf(subject.val) :
            shape_type(s) \notin {"TriMesh", "Polyline", "HeightField", "Compound"}
    /\ (outcome # "pending"
        /\ \E k \in DOMAIN input :
              shape_type(input[k][2]) \in {"TriMesh", "Polyline", "HeightField", "Compound"})
       => outcome # "ok"

\* C2: ccd_angular_thickness() of a Compound with n >= 1 children is the
\* maximum of its children's ccd_angular_thickness() values.
C2_AngularThicknessIsMaxOfChildren ==
    (Built /\ ret.op = "ccd_angular_thickness") =>
        /\ \A s \in ChildrenOf(subject.val) : ccd_angular_thickness(s) <= ret.val
        /\ \E s \in ChildrenOf(subject.val) : ccd_angular_thickness(s) = ret.val

\* C3, as stated: for every shape of the closed taxonomy, is_convex() true
\* implies as_support_map() is Some.
C3_ConvexImpliesSupportMap ==
    /\ (BuiltinSubject /\ ret.op = "is_convex" /\ ret.val)
          => is_some(as_support_map(subject.val))
    /\ (BuiltinSubject /\ ret.op = "as_support_map" /\ ~is_some(ret.val))
          => ~is_convex(subject.val)

\* C3, amended: for every shape of the closed taxonomy other than HalfSpace,
\* is_convex() true implies as_support_map() is Some.
C3_ConvexImpliesSupportMapButHalfSpace ==
    /\ (BuiltinSubject /\ shape_type(subject.val) # "HalfSpace"
        /\ ret.op = "is_convex" /\ ret.val)
          => is_some(as_support_map(subject.val))
    /\ (BuiltinSubject /\ shape_type(subject.val) # "HalfSpace"
        /\ ret.op = "as_support_map" /\ ~is_some(ret.val))
          => ~is_convex(subject.val)

C3_Witness ==
    /\ BuiltinSubject
    /\ subject.val.ty = "Capsule"
    /\ ret.op = "is_convex"
    /\ ret.val

\* C4: Compound::new on an empty list fails with EmptyCompound before any
\* child is examined and returns no Compound; every constructed Compound has
\* at least one child.
C4_EmptyInputFails ==
    /\ (outcome # "pending" /\ input = <<>>)
          => (outcome = "EmptyCompound" /\ subject = None /\ examined = 0)
    /\ Built => Len(Compound_shapes(subject.val)) >= 1

C4_Witness == outcome = "EmptyCompound" /\ input = <<>>

\* C5: on a non-empty list Compound::new fails with NestedComposite exactly
\* when some child's as_composite_shape() is Some, and succeeds otherwise.
C5_NestedCompositeIffCompositeChild ==
    (outcome # "pending" /\ input # <<>>) =>
        LET composite == \E k \in DOMAIN input : is_some(as_composite_shape(input[k][2]))
        IN  /\ (outcome = "NestedComposite") <=> composite
            /\ ~composite => Built
            /\ composite => subject = None

C5_Witness ==
    /\ outcome = "NestedComposite"
    /\ Len(input) = 2
    /\ ~is_some(as_composite_shape(input[1][2]))
    /\ input[2][2].ty = "Polyline"

\* C6: a constructed Compound with n children has n aabbs, aabbs()[i] is the
\* Aabb of child i under its own transform, and local_aabb() is the union of
\* all aabbs() merged from the invalid Aabb.
C6_AabbsOfChildren ==
    Built =>
        LET c == subject.val
        IN  /\ Len(Compound_aabbs(c)) = Len(Compound_shapes(c))
            /\ \A k \in DOMAIN Compound_shapes(c) :
                  Compound_aabbs(c)[k]
                     = compute_aabb(Compound_shapes(c)[k][2], Compound_shapes(c)[k][1])
            /\ Compound_local_aabb(c) = UnionOf(Compound_aabbs(c))
            /\ ret.op = "local_aabb" => ret.val = UnionOf(Compound_aabbs(c))
            /\ ret.op = "aabbs" => Len(ret.val) = Len(input)

C6_Witness ==
    /\ Built
    /\ Len(input) = 2
    /\ ret.op = "local_aabb"
    /\ ret.val # subject.val.aabbs[1]
    /\ ret.val # subject.val.aabbs[2]

\* C7: the children of a Compound keep the order given to Compound::new, and
\* index i names the i-th given child in shapes(), aabbs(), the BVH leaves and
\* map_part_at(i); the BVH leaves are exactly the pairs (i, aabbs()[i]).
C7_IndexNamesSameChild ==
    Built =>
        LET c == subject.val
            n == Len(input)
        IN  /\ Compound_shapes(c) = input
            /\ Compound_bvh(c).leaves = {<<i, Compound_aabbs(c)[i + 1]>> : i \in 0..(n - 1)}
            /\ \A i \in 0..(n - 1) :
                  <<i, compute_aabb(input[i + 1][2], input[i + 1][1])>>
                     \in Compound_bvh(c).leaves
            /\ (ret.op = "map_part_at" /\ ret.arg < n) =>
                  /\ is_some(ret.val)
                  /\ ret.val.val.part_pos = Some(input[ret.arg + 1][1])
                  /\ ret.val.val.part = input[ret.arg + 1][2]
            /\ ret.op = "shapes" => ret.val = input

C7_Witness ==
    /\ Built
    /\ Len(input) = 2
    /\ input[1] # input[2]
    /\ ret.op = "map_part_at"
    /\ ret.arg = 1
    /\ is_some(ret.val)

\* C8: for every shape of the closed taxonomy, Compound and the Round*
\* wrappers included, ccd_angular_thickness() lies in [0, pi].
C8_AngularThicknessInRange ==
    (BuiltinSubject /\ ret.op = "ccd_angular_thickness") => (0 <= ret.val /\ ret.val <= pi)

\* C9: ccd_thickness() of a Compound with n >= 1 children is the minimum of
\* its children's ccd_thickness() values.
C9_ThicknessIsMinOfChildren ==
    (Built /\ ret.op = "ccd_thickness") =>
        /\ \A s \in ChildrenOf(subject.val) : ret.val <= ccd_thickness(s)
        /\ \E s \in ChildrenOf(subject.val) : ret.val = ccd_thickness(s)

C9_Witness ==
    /\ Built
    /\ ret.op = "ccd_thickness"
    /\ Len(input) = 2
    /\ ccd_thickness(input[1][2]) > ccd_thickness(input[2][2])
    /\ ret.val > 0

\* C10: for every built-in shape s and every kind K with a typed accessor,
\* as_<K>(s) is Some exactly when s.shape_type() is K.
C10_AccessorIffShapeType ==
    (BuiltinSubject /\ ret.op = "as_kind") =>
        /\ is_some(ret.val) <=> (shape_type(subject.val) = ret.arg)
        /\ is_some(ret.val) => ret.val.val = subject.val

C10_Witness ==
    /\ BuiltinSubject
    /\ ret.op = "as_kind"
    /\ ret.arg = "RoundTriangle"
    /\ is_some(ret.val)

\* C11: for every built-in shape the variant as_typed_shape() returns carries
\* the tag shape_type() returns (and borrows the shape itself), and two
\* built-in shapes of different concrete types have different shape_type()
\* tags.
C11_TypedShapeTagIsShapeType ==
    /\ (BuiltinSubject /\ ret.op = "as_typed_shape") =>
          /\ ret.val.tag = shape_type(subject.val)
          /\ ret.val.shape = subject.val
    /\ (BuiltinSubject /\ ret.op = "shape_type") =>
          /\ ret.val = as_typed_shape(subject.val).tag
          /\ \A s \in BuiltinShapes :
                type_id(s) # type_id(subject.val) => shape_type(s) # ret.val

C11_Witness ==
    /\ BuiltinSubject
    /\ type_id(subject.val) = TypeId("RoundShape", "Triangle")
    /\ ret.op = "as_typed_shape"
    /\ ret.val.tag = "RoundTriangle"

\* The subject is a RoundShape of the closed taxonomy.
RoundSubject == is_some(subject) /\ subject.val.ty = "RoundShape"

\* C12: for a rounded shape with inner shape `inner` and border radius r,
\* is_convex() is inner.is_convex(), ccd_thickness() is inner.ccd_thickness()
\* + r (the smallest half-extent plus r when the inner shape is a Cuboid), and
\* ccd_angular_thickness() is inner.ccd_angular_thickness().
C12_RoundDelegatesToInner ==
    RoundSubject =>
        LET inner == subject.val.inner_shape
            r == subject.val.border_radius
        IN  /\ ret.op = "is_convex" => ret.val = is_convex(inner)
            /\ ret.op = "ccd_thickness" =>
                  /\ ret.val = ccd_thickness(inner) + r
                  /\ inner.ty = "Cuboid" =>
                        /\ \A k \in 1..dim : ret.val <= inner.half_extents[k] + r
                        /\ \E k \in 1..dim : ret.val = inner.half_extents[k] + r
            /\ ret.op = "ccd_angular_thickness" =>
                  ret.val = ccd_angular_thickness(inner)

C12_Witness ==
    /\ RoundSubject
    /\ subject.val.inner_shape.ty = "Cuboid"
    /\ subject.val.border_radius > 0
    /\ ret.op = "ccd_thickness"
    /\ ret.val = 2

\* C13: for a rounded shape with inner shape `inner` and border radius r,
\* compute_local_aabb() is inner.local_aabb() loosened by r,
\* compute_local_bounding_sphere() is inner.local_bounding_sphere() loosened
\* by r, and compute_aabb(pos) is inner.aabb(pos) loosened by r.
C13_RoundBoundsAreInnerLoosened ==
    RoundSubject =>
        LET inner == subject.val.inner_shape
            r == subject.val.border_radius
        IN  /\ ret.op = "compute_local_aabb" =>
                  \A k \in 1..dim :
                     /\ ret.val.mins[k] = local_aabb(inner).mins[k] - r
                     /\ ret.val.maxs[k] = local_aabb(inner).maxs[k] + r
            /\ ret.op = "compute_local_bounding_sphere" =>
                  /\ ret.val.center = local_bounding_sphere(inner).center
                  /\ ret.val.radius = local_bounding_sphere(inner).radius + r
            /\ ret.op = "compute_aabb" =>
                  \A k \in 1..dim :
                     /\ ret.val.mins[k] = aabb(inner, ret.arg).mins[k] - r
                     /\ ret.val.maxs[k] = aabb(inner, ret.arg).maxs[k] + r

C13_Witness ==
    /\ RoundSubject
    /\ subject.val.border_radius > 0
    /\ ret.op = "compute_aabb"
    /\ ret.arg.rotation = 1
    /\ ret.val # compute_local_aabb(subject.val)

\* C14: scale_dyn on a Compound all of whose children scale gives a Compound
\* with as many children in the same order, child i at the translation of
\* the original multiplied component-wise by the scale, with the original
\* rotation, and with the shape the child's own scale_dyn gives; when some
\* child's scale_dyn is None the result is None.
C14_CompoundScalesChildren ==
    (Built /\ ret.op = "scale_dyn") =>
        LET old == Compound_shapes(subject.val)
            part(k) == scale_dyn(old[k][2], ret.arg)
        IN  IF \A k \in 1..Len(old) : is_some(part(k))
            THEN /\ is_some(ret.val)
                 /\ shape_type(ret.val.val) = "Compound"
                 /\ Len(Compound_shapes(ret.val.val)) = Len(old)
                 /\ \A k \in 1..Len(old) :
                       LET new == Compound_shapes(ret.val.val)[k]
                       IN  /\ \A j \in 1..dim :
                                 new[1].translation[j]
                                    = old[k][1].translation[j] * ret.arg[j]
                           /\ new[1].rotation = old[k][1].rotation
                           /\ new[2] = part(k).val
            ELSE ret.val = None

\* C15: scale_dyn on a rounded shape scales the inner shape only: the result
\* is None exactly when scaling the inner shape gives None, and otherwise it
\* is a rounded shape around the scaled inner shape (a convex polyhedron when
\* a Cylinder or Cone degrades) with the border radius unchanged.
C15_RoundScaleKeepsBorderRadius ==
    (RoundSubject /\ ret.op = "scale_dyn") =>
        LET inner == scaled(subject.val.inner_shape, ret.arg)
        IN  /\ (ret.val = None) <=> (inner = None)
            /\ is_some(inner) =>
                  /\ is_some(ret.val)
                  /\ ret.val.val.ty = "RoundShape"
                  /\ ret.val.val.border_radius = subject.val.border_radius
                  /\ ret.val.val.inner_shape = inner.val
                  /\ shape_type(ret.val.val) = round_tag(inner.val.ty)

C15_Witness ==
    /\ RoundSubject
    /\ subject.val.inner_shape.ty = "Cylinder"
    /\ subject.val.border_radius > 0
    /\ ret.op = "scale_dyn"
    /\ is_some(ret.val)
    /\ ret.val.val.inner_shape.ty = "ConvexPolyhedron"
    /\ ret.val.val.border_radius = subject.val.border_radius

\* C16: into_shared_shape returns None exactly for the Custom variant; for
\* every other variant it returns a shape whose shape_type() is the tag of
\* the decoded variant.
C16_OnlyCustomIsRejected ==
    outcome = "decoded" =>
        /\ (subject = None) <=> (input[1].tag = "Custom")
        /\ ret.op = "into_shared_shape" =>
              /\ ret.arg = input[1]
              /\ ret.val = subject
              /\ is_some(ret.val) => shape_type(ret.val.val) = ret.arg.tag
        /\ ret.op = "shape_type" => ret.val = input[1].tag

C16_Witness ==
    /\ outcome = "decoded"
    /\ input[1].tag = "RoundCuboid"
    /\ ret.op = "shape_type"
    /\ ret.val = "RoundCuboid"

\* C17: for every shape and positions p, q, compute_swept_aabb(p, q) contains
\* compute_aabb(p) and compute_aabb(q), is exactly their merge (the smallest
\* box holding both), and equals compute_swept_aabb(q, p).
C17_SweptAabbIsMergeOfEnds ==
    (is_some(subject) /\ ret.op = "compute_swept_aabb") =>
        LET aabb1 == compute_aabb(subject.val, ret.arg[1])
            aabb2 == compute_aabb(subject.val, ret.arg[2])
        IN  /\ contains(ret.val, aabb1)
            /\ contains(ret.val, aabb2)
            /\ \A k \in 1..dim :
                  /\ ret.val.mins[k] \in {aabb1.mins[k], aabb2.mins[k]}
                  /\ ret.val.maxs[k] \in {aabb1.maxs[k], aabb2.maxs[k]}
            /\ ret.val = compute_swept_aabb(subject.val, ret.arg[2], ret.arg[1])

C17_Witness ==
    /\ is_some(subject)
    /\ ret.op = "compute_swept_aabb"
    /\ ret.arg[1] # ret.arg[2]
    /\ ret.val # compute_aabb(subject.val, ret.arg[1])
    /\ ret.val # compute_aabb(subject.val, ret.arg[2])

\* C18: for every shape and position p, compute_aabb(p) lies inside
\* compute_local_aabb().transform_by(p); the two are equal for a shape that
\* keeps the default compute_aabb (Voxels) and for a Compound; for a rounded
\* shape the loosened box of the inner shape at p lies inside the transformed
\* loosened local box.
C18_AabbInsideTransformedLocalAabb ==
    (is_some(subject) /\ ret.op = "compute_aabb") =>
        LET s == subject.val
            bound == transform_by(compute_local_aabb(s), ret.arg)
        IN  /\ contains(bound, ret.val)
            /\ s.ty \in {"Voxels", "Compound", "Custom"} => ret.val = bound
            /\ s.ty = "RoundShape" =>
                  contains(transform_by(loosened(local_aabb(s.inner_shape), s.border_radius),
                                        ret.arg),
                           loosened(aabb(s.inner_shape, ret.arg), s.border_radius))

C18_Witness ==
    /\ RoundSubject
    /\ subject.val.inner_shape.ty = "Triangle"
    /\ ret.op = "compute_aabb"
    /\ ret.arg.rotation = 1
    /\ ret.arg.translation # repeat(0)
    /\ contains(transform_by(compute_local_aabb(subject.val), ret.arg), ret.val)

\* C19: in both scalar configurations, ccd_thickness() of a HalfSpace is
\* greater than or equal to ccd_thickness() of every Cuboid with finite
\* half-extents.
C19_HalfSpaceThickerThanCuboids ==
    (is_some(subject) /\ ret.op = "ccd_thickness") =>
        /\ subject.val.ty = "HalfSpace" =>
              \A c \in BuiltinShapes :
                 (c.ty = "Cuboid" /\ \A k \in 1..dim : c.half_extents[k] <= REAL_MAX)
                    => ret.val >= ccd_thickness(c)
        /\ (subject.val.ty = "Cuboid"
            /\ \A k \in 1..dim : subject.val.half_extents[k] <= REAL_MAX) =>
              \A h \in BuiltinShapes : h.ty = "HalfSpace" => ccd_thickness(h) >= ret.val

\* The subject is a Cone whose radius is its half-height.
EqualConeSubject ==
    /\ is_some(subject)
    /\ subject.val.ty = "Cone"
    /\ subject.val.radius = subject.val.half_height

\* C20, as stated: for a Cone with radius = half_height,
\* ccd_angular_thickness() is 2 atan2(1, 1) = pi/2.
C20_EqualConeIsHalfPi ==
    (EqualConeSubject /\ ret.op = "ccd_angular_thickness") =>
        /\ ret.val = 2 * atan2(1, 1)
        /\ ret.val = frac_pi_2

\* C20, amended: for a Cone with radius = half_height,
\* ccd_angular_thickness() is min(pi/2 - atan2(1, 1), 2 atan2(1, 1)) = pi/4:
\* the basis angle, which is below twice the apex half-angle.
C20_EqualConeIsQuarterPi ==
    (EqualConeSubject /\ ret.op = "ccd_angular_thickness") =>
        /\ ret.val = min(frac_pi_2 - atan2(1, 1), 2 * atan2(1, 1))
        /\ ret.val = frac_pi_4
        /\ ret.val < 2 * atan2(1, 1)

C20_Witness ==
    /\ EqualConeSubject
    /\ subject.val.radius = 2
    /\ ret.op = "ccd_angular_thickness"
    /\ ret.val = frac_pi_4

\* C21: no operation changes a shape after it is constructed, and none gives
\* the caller a way to change it: once a shape exists, no step alters its
\* parameters (for a Compound its shapes, aabbs, aabb and BVH).
C21_ShapesNeverChange == [][is_some(subject) => subject' = subject]_vars

\* C22, as stated: the nested-composite check of Compound::new never rejects
\* a child whose kind is Custom, whatever capabilities it reports.
C22_CustomNeverRejected ==
    outcome = "NestedComposite" => shape_type(input[examined][2]) # "Custom"

\* C22, amended: the nested-composite check of Compound::new rejects a child
\* whose kind is Custom exactly when its as_composite_shape() is Some; a
\* Custom child without the composite capability is accepted.
C22_CustomRejectedIffComposite ==
    outcome \in {"ok", "NestedComposite"} =>
        \A k \in 1..examined :
            shape_type(input[k][2]) = "Custom" =>
                ((outcome = "NestedComposite" /\ k = examined)
                    <=> is_some(as_composite_shape(input[k][2])))

C22_Witness ==
    /\ Built
    /\ Len(input) = 2
    /\ shape_type(input[2][2]) = "Custom"
    /\ shape_type(Compound_shapes(subject.val)[2][2]) = "Custom"

PartVisit ==
    Built /\ ret.op \in {"map_part_at", "map_typed_part_at", "map_untyped_part_at"}

\* C24: on a Compound with n children and an index i < n, map_part_at,
\* map_typed_part_at and map_untyped_part_at each invoke the visitor once,
\* with Some(transform of child i), the shape of child i and no normal
\* constraints.
C24_VisitorSeesChild ==
    (PartVisit /\ ret.arg < Len(Compound_shapes(subject.val))) =>
        /\ is_some(ret.val)
        /\ ret.val.val.part_pos = Some(Compound_shapes(subject.val)[ret.arg + 1][1])
        /\ ret.val.val.part = Compound_shapes(subject.val)[ret.arg + 1][2]
        /\ ret.val.val.normal_constraints = None
        /\ ret.val = map_part_at(subject.val, ret.arg)

C24_Witness ==
    /\ PartVisit
    /\ ret.op = "map_typed_part_at"
    /\ Len(input) = 2
    /\ ret.arg = 1
    /\ is_some(ret.val)
    /\ ret.val.val.part_pos # Some(input[1][1])
    /\ ret.val.val.part = input[2][2]

\* C29: on a Compound with n children and an index i >= n, map_part_at
\* returns without invoking the visitor and without failing, while
\* map_typed_part_at and map_untyped_part_at fail with an out-of-bounds panic
\* and do not return None; the three agree only for i < n.
C29_OutOfRangePart ==
    (PartVisit /\ ret.arg >= Len(Compound_shapes(subject.val))) =>
        /\ ret.op = "map_part_at" => ret.val = None
        /\ ret.op # "map_part_at" =>
              /\ ret.val = Panic("IndexOutOfBounds")
              /\ ret.val # None
              /\ ret.val # map_part_at(subject.val, ret.arg)

C29_Witness ==
    /\ PartVisit
    /\ ret.op = "map_part_at"
    /\ ret.arg = Len(input)
    /\ ret.val = None
    /\ map_untyped_part_at(subject.val, ret.arg).tag = "Panic"

\* C25: as_polygonal_feature_map of a rounded shape is the inner shape's
\* feature map with border radius r; of a Capsule its segment with border
\* radius = radius; of Cuboid, Triangle, Segment, ConvexPolygon,
\* ConvexPolyhedron, Cylinder and Cone the shape itself with border radius 0;
\* of Ball, HalfSpace and the composite shapes None.
C25_FeatureMapBorder ==
    (BuiltinSubject /\ ret.op = "as_polygonal_feature_map") =>
        LET s == subject.val
        IN  /\ s.ty = "RoundShape" =>
                  /\ is_some(as_polygonal_feature_map(s.inner_shape))
                  /\ ret.val = Some(<<as_polygonal_feature_map(s.inner_shape).val[1],
                                      s.border_radius>>)
            /\ s.ty = "Capsule" => ret.val = Some(<<s.segment, s.radius>>)
            /\ s.ty \in {"Cuboid", "Triangle", "Segment", "ConvexPolygon",
                          "ConvexPolyhedron", "Cylinder", "Cone"} =>
                  ret.val = Some(<<s, 0>>)
            /\ (\/ s.ty \in {"Ball", "HalfSpace", "HeightField", "Voxels"}
                \/ is_some(as_composite_shape(s))) =>
                  ret.val = None

C25_Witness ==
    /\ BuiltinSubject
    /\ ret.op = "as_polygonal_feature_map"
    /\ subject.val.ty = "RoundShape"
    /\ is_some(ret.val)
    /\ ret.val.val[2] = subject.val.border_radius
    /\ ret.val.val[2] > 0

\* The 1-based positions of the children that report a composite capability.
CompositeAt(shapes) == {k \in DOMAIN shapes : is_some(as_composite_shape(shapes[k][2]))}

\* C26: Compound::new is transactional: it processes the children in index
\* order and stops at the first child that reports a composite capability,
\* after computing that child's AABB and before computing the AABB of any
\* later child; it returns no Compound when it fails; the supplied children
\* are the same after the call, whether it succeeds or fails.
C26_Transactional ==
    [][(outcome = "pending" /\ outcome' # "pending") =>
          /\ input' = input
          /\ outcome' = "ok" =>
                /\ is_some(subject')
                /\ Compound_shapes(subject'.val) = input
                /\ examined' = Len(input)
          /\ outcome' # "ok" => subject' = None
          /\ outcome' = "EmptyCompound" => examined' = 0
          /\ outcome' = "NestedComposite" =>
                /\ CompositeAt(input) # {}
                /\ examined' \in CompositeAt(input)
                /\ \A k \in CompositeAt(input) : examined' <= k]_vars

C26_Witness ==
    /\ outcome = "NestedComposite"
    /\ Len(input) = 2
    /\ is_some(as_composite_shape(input[1][2]))
    /\ examined = 1
    /\ subject = None

\* A Compound that Compound::new returns for its own list of children.
AcceptedByNew(c) ==
    /\ Len(Compound_shapes(c)) >= 1
    /\ CompositeAt(Compound_shapes(c)) = {}
    /\ Compound_new(Compound_shapes(c)).value = Some(c)

\* C27: every Compound obtainable through Compound::new, decompose_trimesh,
\* scale_dyn, clone_dyn and the derived deserialization has at least one
\* child, no child with a composite capability, and aabbs and aabb consistent
\* with its children; deserialization yields no Compound that Compound::new
\* would have rejected.
C27_DecodedCompoundIsValid ==
    (is_some(subject) /\ outcome \in {"ok", "decoded"} /\ subject.val.ty = "Compound") =>
        AcceptedByNew(subject.val)

\* C28: scale_dyn on a constructed Compound never panics: when every child's
\* scale_dyn returns Some, the inner Compound::new succeeds, since no scaled
\* child reports a composite capability.
C28_ScaleNeverPanics ==
    (Built /\ ret.op = "scale_dyn") =>
        /\ ret.val.tag # "Panic"
        /\ (\A k \in DOMAIN Compound_shapes(subject.val) :
               is_some(scale_dyn(Compound_shapes(subject.val)[k][2], ret.arg)))
              => /\ is_some(ret.val)
                 /\ Len(Compound_shapes(ret.val.val)) = Len(Compound_shapes(subject.val))
                 /\ CompositeAt(Compound_shapes(ret.val.val)) = {}

\* C30: for a rounded shape with inner shape `inner` and border radius r,
\* mass_properties(density) is inner.mass_properties(density) whatever r >= 0
\* is, although r enlarges the reported bounds and ccd_thickness.
C30_RoundMassIsInnerMass ==
    (RoundSubject /\ ret.op = "mass_properties") =>
        LET inner == subject.val.inner_shape
            r == subject.val.border_radius
        IN  /\ ret.val = mass_properties(inner, ret.arg)
            /\ \A q \in 0..(r + 1) :
                  mass_properties(RoundShape(inner, q), ret.arg) = ret.val
            /\ compute_local_aabb(subject.val) = loosened(compute_local_aabb(inner), r)
            /\ ccd_thickness(subject.val) = ccd_thickness(inner) + r
            /\ r > 0 =>
                  /\ compute_local_aabb(subject.val) # compute_local_aabb(inner)
                  /\ ccd_thickness(subject.val) > ccd_thickness(inner)

C30_Witness ==
    /\ RoundSubject
    /\ ret.op = "mass_properties"
    /\ subject.val.inner_shape.ty = "Cuboid"
    /\ subject.val.border_radius > 0
    /\ ret.arg = 2
    /\ ret.val = MassProperties("from_cuboid", 2, <<subject.val.inner_shape.half_extents>>)

====
